---- MODULE Spec2Model ----
(***************************************************************************)
(* The App component of src/index.tsx as a state machine: the React state  *)
(* (files, isAnalyzing, result, error), the asynchronous handlers          *)
(* handleFileChange and analyzeFiles with their await points, and the      *)
(* synchronous handlers removeFile and clearAll.                           *)
(*                                                                         *)
(* Every step is one run of JavaScript between two await points: the event *)
(* loop is single-threaded, so such a run is atomic.  A handler reads the  *)
(* state of the render it was created in; handlers are re-created on every *)
(* render, so a handler started by a user event reads the current state.   *)
(* The functional updates setFiles(prev => ...) and setResult(prev => ...) *)
(* read the state at the moment they are applied.                          *)
(***************************************************************************)
EXTENDS Integers, Sequences, FiniteSets, TLC

VARIABLES
    files,        \* useState<AppFile[]>([])            line 71
    isAnalyzing,  \* useState(false)                    line 72
    result,       \* useState('')                       line 73
    error,        \* useState<string | null>(null)      line 74
    intake,       \* the handleFileChange calls suspended on a file read
    run,          \* the analyzeFiles calls suspended on the completion service
    last          \* the step taken last: its name, the call it belongs to, its inputs

vars == <<files, isAnalyzing, result, error, intake, run, last>>

(***************************************************************************)
(* Bounds of the model.                                                    *)
(***************************************************************************)
MaxIntakes == 2      \* handleFileChange calls in flight at once
MaxRuns == 2         \* analyzeFiles calls the model can hold in flight at once
MaxChunks == 2       \* fragments one stream yields
MaxSel == 2          \* files in one selection of the detailed specification
MaxBatch == 2        \* files tracked or being read in the detailed specification
MaxId == 2           \* distinct identifiers the random draw can return
MaxClassified == 1   \* files selected, and tracked or being read, in the classification

(***************************************************************************)
(* Program constants.                                                      *)
(***************************************************************************)
MaxFiles == 10

\* JavaScript's null and undefined; no file content, name or message of the
\* model equals either.
Null == "<null>"
Undefined == "<undefined>"

\* JavaScript truthiness of a string | null | undefined value.
Truthy(s) == s # Null /\ s # Undefined /\ s # ""

\* String.prototype.endsWith
EndsWith(s, suffix) ==
    /\ Len(s) >= Len(suffix)
    /\ SubSeq(s, Len(s) - Len(suffix) + 1, Len(s)) = suffix

DocxMime == "application/vnd.openxmlformats-officedocument.wordprocessingml.document"

\* 'Можно загрузить не более 10 файлов одновременно.'
CapacityMsg == "No more than 10 files can be uploaded at once."

\* 'Произошла ошибка при анализе файлов. Попробуйте снова.'
FallbackMsg == "An error occurred while analyzing the files. Try again."

\* The fixed instruction: "Проанализируй все предоставленные выше файлы ..."
Instruction == "Analyze all the files provided above ... Answer in Russian."

(***************************************************************************)
(* A File of the browser: its name, its declared MIME type, its content    *)
(* (data: the text of a text file or of a Word document, the bytes of any  *)
(* other file) and whether reading it fails (an unreadable file, a         *)
(* malformed Word document).                                               *)
(***************************************************************************)
MkFile(name, type, data, bad) ==
    [name |-> name, type |-> type, data |-> data, bad |-> bad]

TxtFile == MkFile("n.txt", "text/plain", "abc", FALSE)
EmptyTxtFile == MkFile("e.txt", "text/plain", "", FALSE)
DocxFile == MkFile("r.docx", DocxMime, "abc", FALSE)
BadDocxFile == MkFile("bad.docx", DocxMime, "abc", TRUE)
PngFile == MkFile("p.png", "image/png", "abc", FALSE)
BinFile == MkFile("blob", "", "abc", FALSE)
EmptyBinFile == MkFile("zero", "", "", FALSE)

\* The files selections are made of: one without text, one that cannot be
\* read, one without a declared type, one without bytes.
Pool == {EmptyTxtFile, BadDocxFile, BinFile, EmptyBinFile}

\* The bytes of a Word archive, and the raw text of its document.
WordArchive == "PK"
WordText == "doc"

\* base64 of the contents the model uses
Base64(data) ==
    IF data = "abc" THEN "YWJj" ELSE IF data = WordArchive THEN "UEs=" ELSE ""

\* reader.readAsDataURL(file); (reader.result as string).split(',')[1]
fileToBase64(file) == Base64(file.data)

\* reader.readAsText(file); reader.result
fileToText(file) == file.data

\* mammoth.extractRawText({ arrayBuffer }).value: the text of the document in
\* the archive; the other contents of the model stand for their own text.
extractDocxText(file) == IF file.data = WordArchive THEN WordText ELSE file.data

\* The message of the error a failed read throws: extractDocxText rethrows an
\* Error with a fixed message; the FileReader helpers reject with the reader's
\* error event, which has no message property.
ReadErrorMessage(isDocx) ==
    IF isDocx THEN "Failed to read the content of the Word document."
    ELSE "undefined"

\* A test that looks at the name only.
IsDocxByName(file) == EndsWith(file.name, ".docx")

IsDocx(file) == EndsWith(file.name, ".docx") \/ file.type = DocxMime

IsText(file) == file.type = "text/plain" \/ EndsWith(file.name, ".txt")

\* `Ошибка при обработке файла ${file.name}: ${err.message}`
FileErrorMsg(file) ==
    "Error processing file " \o file.name \o ": " \o ReadErrorMessage(IsDocx(file))

\* The AppFile pushed for a file that was read (lines 88-106).
NewAppFile(file, id) ==
    IF IsDocx(file)
    THEN [file |-> file, base64 |-> "", extractedText |-> extractDocxText(file), id |-> id]
    ELSE IF IsText(file)
    THEN [file |-> file, base64 |-> "", extractedText |-> fileToText(file), id |-> id]
    ELSE [file |-> file, base64 |-> fileToBase64(file), extractedText |-> Undefined, id |-> id]

(***************************************************************************)
(* handleFileChange (lines 78-116).                                        *)
(***************************************************************************)
IdleIntake == [pc |-> "idle", selected |-> <<>>, i |-> 0, newFiles |-> <<>>]

IntakeSlots == 1..MaxIntakes

IdsOf(seq) == {seq[k].id : k \in 1..Len(seq)}

\* Math.random().toString(36).substring(7): a draw returns any identifier,
\* with no check against those in use.  Identifiers are opaque and only
\* compared for equality (lines 119, 257); they are numbered from 1.
Ids == 1..MaxId

\* The identifiers held by the batch or by a call in flight.
IdsInUse == IdsOf(files) \cup UNION {IdsOf(intake[t].newFiles) : t \in IntakeSlots}

\* A draw that repeats no identifier in use: the least one that is free.
FreshId == CHOOSE n \in 1..(Cardinality(IdsInUse) + 1) :
               n \notin IdsInUse /\ \A m \in 1..(n - 1) : m \in IdsInUse

\* The check of line 80 off by one: a batch of 11 passes.
OverCapacityOffByOne(count, n) == count + n > MaxFiles + 1

\* files.length + selectedFiles.length > 10 (line 80)
OverCapacity(count, n) == count + n > MaxFiles

\* A loop body that gives up what it has read when a read fails.
SettleDropsOnFailure(newFiles, file, id) ==
    IF file.bad THEN <<>> ELSE Append(newFiles, NewAppFile(file, id))

\* One pass of the loop body for a file whose read has settled (lines 87-110):
\* the new newFiles.
Settle(newFiles, file, id) ==
    IF file.bad THEN newFiles ELSE Append(newFiles, NewAppFile(file, id))

\* An update that puts the files of the call first.
MergeInFront(prev, newFiles) == newFiles \o prev

\* setFiles(prev => [...prev, ...newFiles]) (line 113)
Merge(prev, newFiles) == prev \o newFiles

\* A call that leaves the error as the loop left it.
ErrorKept(shown) == shown

\* The error shown when the loop has ended: setError(null) (line 114) is the
\* last update of the call.
ErrorAfterLoop(shown) == Null

\* The record of a step: the selection, number or text it was given, if any;
\* for the end of a handleFileChange call and for clearAll, the error that was
\* shown when the step was taken.
Step(op, slot, selected, n, text) ==
    [op |-> op, slot |-> slot, selected |-> selected, n |-> n, text |-> text]

\* The user picks the files `selected`; the handler runs up to its first await.
HandleFileChange(selected) ==
    /\ last' = Step("handleFileChange", 0, selected, 0, "")
    /\ UNCHANGED <<isAnalyzing, result, run>>
    /\ IF OverCapacity(Len(files), Len(selected))
       THEN /\ error' = CapacityMsg
            /\ UNCHANGED <<files, intake>>
       ELSE IF selected = <<>>
       THEN /\ files' = Merge(files, <<>>)
            /\ error' = ErrorAfterLoop(error)
            /\ UNCHANGED intake
       ELSE /\ \E t \in IntakeSlots :
                 /\ intake[t].pc = "idle"
                 /\ \A u \in 1..(t - 1) : intake[u].pc # "idle"
                 /\ intake' = [intake EXCEPT ![t] =
                        [pc |-> "reading", selected |-> selected, i |-> 1,
                         newFiles |-> <<>>]]
            /\ UNCHANGED <<files, error>>

\* The read awaited by call t settles; the handler runs to its next await, or,
\* after the last file, to its end.
ReadSettled(t, ids) ==
    /\ intake[t].pc = "reading"
    /\ LET call == intake[t]
           file == call.selected[call.i]
       IN  \E id \in ids :
             LET newFiles == Settle(call.newFiles, file, id)
                 shown == IF file.bad THEN FileErrorMsg(file) ELSE error
             IN  IF call.i < Len(call.selected)
                 THEN /\ intake' = [intake EXCEPT ![t].i = call.i + 1,
                                                  ![t].newFiles = newFiles]
                      /\ error' = shown
                      /\ UNCHANGED files
                 ELSE /\ files' = Merge(files, newFiles)
                      /\ error' = ErrorAfterLoop(shown)
                      /\ intake' = [intake EXCEPT ![t] = IdleIntake]
    /\ last' = IF intake[t].i < Len(intake[t].selected)
               THEN Step("readSettled", t, <<>>, 0, "")
               ELSE Step("loopEnded", t, intake[t].selected, 0, error)
    /\ UNCHANGED <<isAnalyzing, result, run>>

(***************************************************************************)
(* removeFile (lines 118-120) and clearAll (lines 122-126).                *)
(***************************************************************************)
\* prev.filter(f => f.id !== id)
FilterOut(prev, id) == SelectSeq(prev, LAMBDA f : f.id # id)

RemoveFile(id) ==
    /\ files' = FilterOut(files, id)
    /\ last' = Step("removeFile", 0, <<>>, id, "")
    /\ UNCHANGED <<isAnalyzing, result, error, intake, run>>

\* The button is rendered only while the batch is non-empty (lines 242-252).
ClearAll ==
    /\ Len(files) > 0
    /\ files' = <<>>
    /\ result' = ""
    /\ error' = Null
    /\ last' = Step("clearAll", 0, <<>>, 0, error)
    /\ UNCHANGED <<isAnalyzing, intake, run>>

(***************************************************************************)
(* analyzeFiles (lines 128-177).                                           *)
(***************************************************************************)
IdleRun == [pc |-> "idle", parts |-> <<>>, n |-> 0, yielded |-> ""]

RunSlots == 1..MaxRuns

\* { text: `Содержимое файла ${f.file.name}:\n${f.extractedText}` }
TextPart(content) == [text |-> content]

InlineDataPart(mimeType, data) == [inlineData |-> [mimeType |-> mimeType, data |-> data]]

LabelledText(f) == "Content of file " \o f.file.name \o ":\n" \o f.extractedText

\* A forEach body that passes the declared type on, empty or not.
PartsOfDeclaredType(f) ==
    IF Truthy(f.extractedText)
    THEN <<TextPart(LabelledText(f))>>
    ELSE IF Truthy(f.base64)
    THEN <<InlineDataPart(f.file.type, f.base64)>>
    ELSE <<>>

\* The body of files.forEach (lines 141-152): the parts pushed for one file.
PartsOf(f) ==
    IF Truthy(f.extractedText)
    THEN <<TextPart(LabelledText(f))>>
    ELSE IF Truthy(f.base64)
    THEN <<InlineDataPart(IF Truthy(f.file.type) THEN f.file.type
                          ELSE "application/octet-stream", f.base64)>>
    ELSE <<>>

RECURSIVE FileParts(_)
FileParts(batch) ==
    IF batch = <<>> THEN <<>> ELSE PartsOf(Head(batch)) \o FileParts(Tail(batch))

\* promptParts as passed to generateContentStream (lines 138-157)
BuildParts(batch) == Append(FileParts(batch), TextPart(Instruction))

\* if (chunkText) setResult(prev => prev + chunkText) (lines 166-169)
AppendChunk(prev, chunkText) == IF Truthy(chunkText) THEN prev \o chunkText ELSE prev

\* err.message || '...' (line 172)
ErrText(message) == IF Truthy(message) THEN message ELSE FallbackMsg

\* The text a fragment contributes to the concatenation of the stream's fragments.
TextOf(chunkText) == IF chunkText = Undefined THEN "" ELSE chunkText

ChunkTexts == {"x", "y", "", Undefined}

ErrorMessages == {"HTTP 429", "", Undefined}

\* A handler without the guard of line 129.
BatchNeverEmpty(batch) == FALSE

\* files.length === 0 (line 129)
BatchIsEmpty(batch) == Len(batch) = 0

\* The handler up to its first await (lines 129-162).  The GoogleGenAI client is
\* taken to be constructed without error; a failure of the setup is the failure
\* of the awaited generateContentStream call (SetupFailed).
AnalyzeFiles ==
    /\ last' = Step("analyzeFiles", 0, <<>>, 0, result)
    /\ UNCHANGED <<files, intake>>
    /\ IF BatchIsEmpty(files)
       THEN UNCHANGED <<isAnalyzing, result, error, run>>
       ELSE /\ isAnalyzing' = TRUE
            /\ result' = ""
            /\ error' = Null
            /\ \E r \in RunSlots :
                 /\ run[r].pc = "idle"
                 /\ \A q \in 1..(r - 1) : run[q].pc # "idle"
                 /\ run' = [run EXCEPT ![r] =
                        [pc |-> "setup", parts |-> BuildParts(files), n |-> 0,
                         yielded |-> ""]]

\* A button that stays enabled during a run.
ClickAnalyzeAlways == AnalyzeFiles

\* The button is disabled while isAnalyzing (line 282).
ClickAnalyze == ~isAnalyzing /\ AnalyzeFiles

\* generateContentStream resolves with the response stream; the parts have
\* been handed over and are read no more.
SetupDone(r) ==
    /\ run[r].pc = "setup"
    /\ run' = [run EXCEPT ![r].pc = "stream", ![r].parts = <<>>]
    /\ last' = Step("setupDone", r, <<>>, 0, "")
    /\ UNCHANGED <<files, isAnalyzing, result, error, intake>>

\* A failure that empties the batch.
FailedDropsBatch(r, message, op) ==
    /\ error' = ErrText(message)
    /\ isAnalyzing' = FALSE
    /\ files' = <<>>
    /\ run' = [run EXCEPT ![r] = IdleRun]
    /\ last' = Step(op, r, <<>>, run[r].n, TextOf(message))
    /\ UNCHANGED <<result, intake>>

\* catch and finally (lines 171-176)
Failed(r, message, op) ==
    /\ error' = ErrText(message)
    /\ isAnalyzing' = FALSE
    /\ run' = [run EXCEPT ![r] = IdleRun]
    /\ last' = Step(op, r, <<>>, run[r].n, TextOf(message))
    /\ UNCHANGED <<files, result, intake>>

\* generateContentStream rejects.
SetupFailed(r, message) ==
    /\ run[r].pc = "setup"
    /\ Failed(r, message, "setupFailed")

\* The stream yields a fragment (lines 164-170).
Chunk(r, chunkText) ==
    /\ run[r].pc = "stream"
    /\ run[r].n < MaxChunks
    /\ result' = AppendChunk(result, chunkText)
    /\ run' = [run EXCEPT ![r].n = run[r].n + 1,
                          ![r].yielded = run[r].yielded \o TextOf(chunkText)]
    /\ last' = Step("chunk", r, <<>>, 0, "")
    /\ UNCHANGED <<files, isAnalyzing, error, intake>>

\* An end of the stream that skips the finally.
StreamEndStuck(r) ==
    /\ run[r].pc = "stream"
    /\ run' = [run EXCEPT ![r] = IdleRun]
    /\ last' = Step("streamEnd", r, <<>>, run[r].n, "")
    /\ UNCHANGED <<files, isAnalyzing, result, error, intake>>

\* The stream ends: finally (lines 174-176).
StreamEnd(r) ==
    /\ run[r].pc = "stream"
    /\ isAnalyzing' = FALSE
    /\ run' = [run EXCEPT ![r] = IdleRun]
    /\ last' = Step("streamEnd", r, <<>>, run[r].n, "")
    /\ UNCHANGED <<files, result, error, intake>>

\* The stream throws while it is consumed.
StreamThrew(r, message) ==
    /\ run[r].pc = "stream"
    /\ Failed(r, message, "streamThrew")

(***************************************************************************)
(* The specifications.                                                     *)
(***************************************************************************)
Init ==
    /\ files = <<>>
    /\ isAnalyzing = FALSE
    /\ result = ""
    /\ error = Null
    /\ intake = [t \in IntakeSlots |-> IdleIntake]
    /\ run = [r \in RunSlots |-> IdleRun]
    /\ last = Step("init", 0, <<>>, 0, "")

RECURSIVE InFlight(_)
InFlight(t) == IF t = 0 THEN 0 ELSE Len(intake[t].selected) + InFlight(t - 1)

\* The files tracked or being read.
Pending == Len(files) + InFlight(MaxIntakes)

Seqs(S, n) == UNION {[1..k -> S] : k \in 0..n}

Bulk(n) == [k \in 1..n |-> PngFile]

\* The selections of the detailed specification: every selection of up to
\* MaxSel files of the pool, and one that is over the cap by itself.
Selections == Seqs(Pool, MaxSel) \cup {Bulk(MaxFiles + 1)}

\* The user picks files: a selection the code rejects, or one that keeps the
\* batch within the bound of the model.
PickFiles(selections, bound) ==
    \E selected \in selections :
        /\ Pending + Len(selected) <= bound \/ OverCapacity(Len(files), Len(selected))
        /\ HandleFileChange(selected)

\* A click on the remove button of a tracked file, or a call with an
\* identifier that is not in the batch (0 is never drawn).
ClickRemove(ids) == \E id \in ids \cup {0} : RemoveFile(id)

Analysis(chunkTexts, messages) ==
    \/ ClickAnalyze
    \/ \E r \in RunSlots : SetupDone(r)
    \/ \E r \in RunSlots, message \in messages : SetupFailed(r, message)
    \/ \E r \in RunSlots, chunkText \in chunkTexts : Chunk(r, chunkText)
    \/ \E r \in RunSlots : StreamEnd(r)
    \/ \E r \in RunSlots, message \in messages : StreamThrew(r, message)

\* The scenario of the specification's section 8: a .txt, a .docx and a .png.
Scenario == <<TxtFile, DocxFile, PngFile>>

\* The detailed intake: selections of every kind of file, and the scenario
\* picked into an empty batch, with draws that repeat no identifier in use,
\* under a stream of equal fragments.
Next ==
    \/ PickFiles(Selections, MaxBatch)
    \/ PickFiles({Scenario}, Len(Scenario))
    \/ \E t \in IntakeSlots : ReadSettled(t, {FreshId})
    \/ ClickRemove(IdsOf(files))
    \/ ClearAll
    \/ Analysis({"x"}, {"HTTP 429"})

Spec == Init /\ [][Next]_vars

\* The detailed stream: every kind of fragment and of failure and every draw of
\* an identifier, over selections of an image and of a file that cannot be read.
NextStream ==
    \/ PickFiles(Seqs({PngFile, BadDocxFile}, MaxSel) \cup {Bulk(MaxFiles + 1)}, MaxBatch)
    \/ \E t \in IntakeSlots : ReadSettled(t, Ids)
    \/ ClickRemove(IdsOf(files))
    \/ ClearAll
    \/ Analysis(ChunkTexts, ErrorMessages)

SpecStream == Init /\ [][NextStream]_vars

\* The batch at its cap: selections of MaxSel and of MaxFiles - 1 image files,
\* every draw returning the same identifier, a stream of equal fragments.
NextCap ==
    \/ PickFiles({Bulk(MaxSel), Bulk(MaxFiles - 1)}, MaxFiles + MaxSel)
    \/ \E t \in IntakeSlots : ReadSettled(t, {1})
    \/ ClickRemove(IdsOf(files))
    \/ ClearAll
    \/ Analysis({"x"}, {"HTTP 429"})

SpecCap == Init /\ [][NextCap]_vars

\* What an analyzeFiles call in flight awaits settles: the request for the
\* stream resolves or rejects, and the stream, which is finite, yields its next
\* fragment, ends or throws.
Settles ==
    \E r \in RunSlots :
        \/ SetupDone(r)
        \/ SetupFailed(r, "HTTP 429")
        \/ Chunk(r, "x")
        \/ StreamEnd(r)
        \/ StreamThrew(r, "HTTP 429")

\* The batch at its cap under a completion service that answers.
SpecLive == Init /\ [][NextCap]_vars /\ WF_vars(Settles)

\* The classification: one Word archive under every combination of a name and
\* a declared type, which every reader can read.
ClassNames == {"a.docx", "a.txt", "a.png"}

ClassTypes == {DocxMime, "text/plain", "image/png", ""}

ClassPool == {MkFile(name, type, WordArchive, FALSE) : name \in ClassNames, type \in ClassTypes}

NextClassify ==
    \/ PickFiles(Seqs(ClassPool, MaxClassified), MaxClassified)
    \/ \E t \in IntakeSlots : ReadSettled(t, {FreshId})
    \/ ClickRemove(IdsOf(files))
    \/ ClearAll
    \/ Analysis({"x"}, {"HTTP 429"})

SpecClassify == Init /\ [][NextClassify]_vars


(***************************************************************************)
(* The claims.                                                             *)
(***************************************************************************)

\* C1: in every reachable state the batch holds at most 10 tracked files.
C1_AtMostTenFiles == Len(files) <= MaxFiles

\* C2: a handleFileChange call whose candidates would take the batch over 10
\* files leaves the batch as it was, starts no read, and sets the error to the
\* capacity message.
C2_RejectedWhole ==
    [][(last'.op = "handleFileChange"
            /\ Len(files) + Len(last'.selected) > MaxFiles)
        => (files' = files /\ intake' = intake /\ error' = CapacityMsg)]_vars

\* C2's case: two files picked for a batch of nine; the batch is still nine
\* and the capacity message is shown.
C2_Witness ==
    /\ last.op = "handleFileChange"
    /\ Len(last.selected) = 2
    /\ Len(files) = MaxFiles - 1
    /\ error = CapacityMsg
    /\ \A t \in IntakeSlots : intake[t].pc = "idle"

\* The candidates of a selection whose read succeeds, in submission order.
Readable(selected) == SelectSeq(selected, LAMBDA f : ~f.bad)

\* C3: when a call that passed the capacity check ends, the batch is the batch
\* of that moment followed by one tracked file for each candidate whose read
\* succeeded, in submission order: it grows by exactly their number k, and a
\* failed candidate keeps none of the others out.
C3_GrowsByAdmitted ==
    [][last'.op = "loopEnded"
        => LET admitted == Readable(last'.selected)
               before == Len(files)
           IN  /\ Len(files') = before + Len(admitted)
               /\ SubSeq(files', 1, before) = files
               /\ \A k \in 1..Len(admitted) : files'[before + k].file = admitted[k]]_vars

\* C3's case: a call with a failed candidate followed by a readable one has
\* ended, and the readable one is the tracked file of the batch.
C3_Witness ==
    /\ last.op = "loopEnded"
    /\ last.selected = <<BadDocxFile, BinFile>>
    /\ Len(files) = 1
    /\ files[1].file = BinFile

\* C4: every tracked file has exactly one of extractedText and base64
\* populated.
C4_ExactlyOnePopulated ==
    \A k \in 1..Len(files) :
        Truthy(files[k].extractedText) # Truthy(files[k].base64)

\* The last candidate of a selection whose read fails.
LastFailed(selected) ==
    selected[CHOOSE k \in 1..Len(selected) :
                /\ selected[k].bad
                /\ \A j \in (k + 1)..Len(selected) : ~selected[j].bad]

\* C5: once a call in which a candidate failed has ended, the error is the
\* message of the last candidate that failed.
C5_FailureSurfaced ==
    (last.op = "loopEnded" /\ \E k \in 1..Len(last.selected) : last.selected[k].bad)
        => error = FileErrorMsg(LastFailed(last.selected))

\* C6: the parts built for the batch are one per tracked file and the
\* instruction, which is last.
C6_OnePartPerFile ==
    LET parts == BuildParts(files)
    IN  /\ Len(parts) = Len(files) + 1
        /\ parts[Len(parts)] = TextPart(Instruction)

\* The tracked files that carry content, in batch order.
WithContent(batch) ==
    SelectSeq(batch, LAMBDA f : Truthy(f.extractedText) \/ Truthy(f.base64))

\* C7: the file parts follow batch order and match each file's kind: the k-th
\* file that carries content yields the k-th part, a text part labelled with
\* the file's name when it has extracted text, else an inline data part with
\* the file's declared type, or the generic binary type when that is empty;
\* the instruction follows; and these are the parts analyzeFiles passes on.
C7_PartsMatchFiles ==
    LET parts == BuildParts(files)
        kept == WithContent(files)
    IN  /\ Len(parts) = Len(kept) + 1
        /\ \A k \in 1..Len(kept) :
             IF Truthy(kept[k].extractedText)
             THEN parts[k] = [text |-> "Content of file " \o kept[k].file.name
                                          \o ":\n" \o kept[k].extractedText]
             ELSE parts[k] = [inlineData |->
                     [mimeType |-> IF kept[k].file.type = ""
                                   THEN "application/octet-stream"
                                   ELSE kept[k].file.type,
                      data |-> kept[k].base64]]
        /\ (last.op = "analyzeFiles" /\ files # <<>>)
             => \E r \in RunSlots : run[r].pc = "setup" /\ run[r].parts = parts

\* C7's case: analyzeFiles has just run on the batch .txt, .docx, .png and
\* passes on two labelled text parts, the image and the instruction.
C7_Witness ==
    /\ last.op = "analyzeFiles"
    /\ Len(files) = 3
    /\ <<files[1].file, files[2].file, files[3].file>> = Scenario
    /\ \E r \in RunSlots :
         /\ run[r].pc = "setup"
         /\ run[r].parts = <<[text |-> "Content of file n.txt:\nabc"],
                             [text |-> "Content of file r.docx:\nabc"],
                             [inlineData |-> [mimeType |-> "image/png", data |-> "YWJj"]],
                             [text |-> Instruction]>>

\* C8: when a stream ends without error, the result is the concatenation, in
\* arrival order, of the fragments the stream yielded.
C8_ResultIsConcatenation ==
    [][last'.op = "streamEnd" => result' = run[last'.slot].yielded]_vars

\* C9: when the stream or its setup throws, isAnalyzing becomes false, the
\* error is the error's message, or the fallback message when it has none,
\* and the result is the concatenation of the fragments received so far.
C9_FailedKeepsFragments ==
    [][last'.op \in {"setupFailed", "streamThrew"}
        => /\ isAnalyzing' = FALSE
           /\ error' = (IF last'.text = "" THEN FallbackMsg ELSE last'.text)
           /\ result' = run[last'.slot].yielded]_vars

\* C10: analyzeFiles on an empty batch changes no state and opens no stream;
\* on a non-empty batch it clears the result and the error, sets isAnalyzing
\* and opens one stream, which has yielded nothing; and nothing else opens a
\* stream.
C10_StartClears ==
    [][/\ last'.op = "analyzeFiles"
          => IF files = <<>>
             THEN UNCHANGED <<files, isAnalyzing, result, error, intake, run>>
             ELSE /\ result' = "" /\ isAnalyzing' = TRUE /\ error' = Null
                  /\ files' = files
                  /\ \E r \in RunSlots :
                       /\ run[r].pc = "idle"
                       /\ run'[r].pc = "setup" /\ run'[r].n = 0 /\ run'[r].yielded = ""
                       /\ \A q \in RunSlots \ {r} : run'[q] = run[q]
       /\ \A r \in RunSlots :
            (run[r].pc = "idle" /\ run'[r].pc # "idle")
                => (last'.op = "analyzeFiles" /\ files # <<>>)]_vars

\* C10's case: analyzeFiles has just run on a non-empty batch while the result
\* of an earlier run was shown; it is cleared and the run is open.
C10_Witness ==
    /\ last.op = "analyzeFiles"
    /\ last.text # ""
    /\ files # <<>>
    /\ result = "" /\ error = Null /\ isAnalyzing
    /\ \E r \in RunSlots : run[r].pc = "setup"

\* The analyzeFiles calls in flight.
RunsInFlight == {r \in RunSlots : run[r].pc # "idle"}

\* C11: analyzeFiles cannot be invoked while isAnalyzing, so at most one run is
\* in flight, isAnalyzing is true exactly while one is, and the result holds
\* fragments of that run only: it is the tail of what the run has yielded
\* (all of it unless the result was cleared meanwhile).
C11_OneRunInFlight ==
    /\ Cardinality(RunsInFlight) <= 1
    /\ isAnalyzing <=> RunsInFlight # {}
    /\ \A r \in RunsInFlight : EndsWith(run[r].yielded, result)

\* C11's case: during a run that has yielded a fragment the batch was cleared
\* and a new file was added; the button is shown again, and is disabled.
C11_Witness ==
    /\ last.op = "loopEnded"
    /\ files # <<>>
    /\ isAnalyzing
    /\ result = ""
    /\ \E r \in RunSlots : run[r].pc = "stream" /\ run[r].yielded # ""

\* C12: clearAll leaves the batch empty, the result empty, isAnalyzing false
\* and the error empty, and a fragment that arrives next, before any new run
\* has begun, leaves the result empty.
C12_ClearAllResets ==
    [][/\ last'.op = "clearAll"
          => (files' = <<>> /\ result' = "" /\ isAnalyzing' = FALSE /\ error' = Null)
       /\ (last.op = "clearAll" /\ last'.op = "chunk") => result' = ""]_vars

\* The tracked files of a batch that bear an identifier.
Bearing(batch, id) == {k \in 1..Len(batch) : batch[k].id = id}

\* C13: removeFile(id) takes exactly the tracked file that bears the
\* identifier out of the batch, one file, and keeps the others in their
\* order; with an identifier no file bears it changes nothing, so a second
\* removeFile(id) changes nothing; and it leaves the result, isAnalyzing and
\* the error alone.
C13_RemovesExactlyOne ==
    [][last'.op = "removeFile"
        => LET id == last'.n
           IN  /\ IF Bearing(files, id) = {} THEN files' = files
                  ELSE \E k \in Bearing(files, id) :
                         files' = SubSeq(files, 1, k - 1) \o SubSeq(files, k + 1, Len(files))
               /\ Bearing(files', id) = {}
               /\ UNCHANGED <<result, isAnalyzing, error>>]_vars

\* C14: the identifiers of the tracked files of the batch are pairwise
\* distinct.
C14_IdsDistinct ==
    \A j, k \in 1..Len(files) : j # k => files[j].id # files[k].id

\* C15: the error is one message or none, and it is none after a
\* handleFileChange call that passed the capacity check and admitted every
\* candidate, and after every clearAll, whichever message was shown before.
C15_ErrorCleared ==
    [][/\ (last'.op = "loopEnded" /\ Readable(last'.selected) = last'.selected)
          => error' = Null
       /\ (last'.op = "handleFileChange" /\ last'.selected = <<>>
              /\ Len(files) <= MaxFiles)
          => error' = Null
       /\ last'.op = "clearAll" => error' = Null]_vars

\* C15's case: a call that admitted its one candidate has ended while the
\* message of a failed analysis was shown, and the error is empty.
C15_Witness ==
    /\ last.op = "loopEnded"
    /\ last.selected = <<PngFile>>
    /\ last.text = "HTTP 429"
    /\ error = Null

\* C16: while a run is in flight the result only grows by append: over every
\* step that a run is in flight before and after, the result before is a
\* prefix of the result after.
C16_ResultGrowsByAppend ==
    [][(\E r \in RunSlots : run[r].pc # "idle" /\ run'[r].pc # "idle")
        => /\ Len(result') >= Len(result)
           /\ SubSeq(result', 1, Len(result)) = result]_vars

\* The files of a sequence of tracked files, in order.
RECURSIVE FilesOf(_)
FilesOf(batch) == IF batch = <<>> THEN <<>> ELSE <<Head(batch).file>> \o FilesOf(Tail(batch))

\* The tracked files of a batch that do not bear an identifier, in order.
Others(batch, id) ==
    LET keep == {k \in 1..Len(batch) : batch[k].id # id}
        Nth(n) == CHOOSE k \in keep : Cardinality({j \in keep : j < k}) = n - 1
    IN  [n \in 1..Cardinality(keep) |-> batch[Nth(n)]]

\* C17: the batch keeps insertion order.  A call in flight has settled its
\* candidates before the one it is reading, and none after it: it holds the
\* readable ones among them, in submission order.  A step of a call settles
\* the one candidate being read and moves to the next, leaving the batch
\* alone, or, after the last one, puts what the call holds after all files of
\* the batch.  removeFile keeps the other files in their order, and no step
\* but clearAll changes the batch otherwise.
C17_InsertionOrder ==
    [][/\ \A t \in IntakeSlots :
            intake'[t].pc = "reading"
                => /\ intake'[t].i \in 1..Len(intake'[t].selected)
                   /\ FilesOf(intake'[t].newFiles)
                        = Readable(SubSeq(intake'[t].selected, 1, intake'[t].i - 1))
       /\ last'.op = "readSettled"
            => /\ files' = files
               /\ intake'[last'.slot].i = intake[last'.slot].i + 1
               /\ \A t \in IntakeSlots \ {last'.slot} : intake'[t] = intake[t]
       /\ last'.op = "loopEnded"
            => /\ Len(files') >= Len(files)
               /\ SubSeq(files', 1, Len(files)) = files
               /\ FilesOf(SubSeq(files', Len(files) + 1, Len(files')))
                    = Readable(last'.selected)
               /\ \A t \in IntakeSlots \ {last'.slot} : intake'[t] = intake[t]
       /\ last'.op = "removeFile" => files' = Others(files, last'.n)
       /\ last'.op \notin {"loopEnded", "removeFile", "clearAll"} => files' = files]_vars

\* C17's case: a call has ended with a batch of two files of two calls: its
\* own file, picked second, is the second.
C17_Witness ==
    /\ last.op = "loopEnded"
    /\ last.selected = <<EmptyTxtFile>>
    /\ Len(files) = 2
    /\ files[1].file = BinFile
    /\ files[2].file = EmptyTxtFile

\* C18: a tracked file whose name ends in .docx or whose declared type is
\* the Word type holds the text of the document and no payload, whatever else
\* its name or type says; otherwise one with the declared type text/plain or
\* a name that ends in .txt holds the file read as text and no payload; every
\* other one holds the base64 payload and no text.  None holds both.
C18_Classification ==
    \A k \in 1..Len(files) :
        LET f == files[k]
            name == f.file.name
            type == f.file.type
            word == EndsWith(name, ".docx")
                      \/ type = "application/vnd.openxmlformats-officedocument.wordprocessingml.document"
            text == type = "text/plain" \/ EndsWith(name, ".txt")
        IN  /\ word => (f.extractedText = "doc" /\ f.base64 = "")
            /\ (~word /\ text) => (f.extractedText = "PK" /\ f.base64 = "")
            /\ (~word /\ ~text) => (f.extractedText = Undefined /\ f.base64 = "UEs=")
            /\ ~(Truthy(f.extractedText) /\ Truthy(f.base64))

\* C18's case: a file with a .txt name and the Word type is tracked with the
\* text of the document.
C18_Witness ==
    \E k \in 1..Len(files) :
        /\ files[k].file.name = "a.txt"
        /\ files[k].file.type = DocxMime
        /\ files[k].extractedText = "doc"
        /\ files[k].base64 = ""

\* C19: isAnalyzing is true only while a run is in flight, and, the request
\* and the stream of a run being finite, whenever it is true it becomes false.
C19_RunsEnd ==
    /\ [](isAnalyzing => \E r \in RunSlots : run[r].pc \in {"setup", "stream"})
    /\ isAnalyzing ~> ~isAnalyzing

\* C19's case: a stream has ended after all its fragments; no run is in
\* flight and isAnalyzing is false.
C19_Witness ==
    /\ last.op = "streamEnd"
    /\ last.n = MaxChunks
    /\ ~isAnalyzing
    /\ \A r \in RunSlots : run[r].pc = "idle"

\* C20: no step of an analysis run changes the batch: the start of a run, the
\* opening of its stream, a fragment, the end of the stream and a failure
\* leave the tracked files and their order as they were; after a failure
\* isAnalyzing is false, so the same batch can be analyzed again.
C20_RunKeepsBatch ==
    [][/\ last'.op \in {"analyzeFiles", "setupDone", "chunk", "streamEnd",
                        "setupFailed", "streamThrew"}
          => files' = files
       /\ last'.op \in {"setupFailed", "streamThrew"} => ~isAnalyzing']_vars

\* C20's case: a stream has thrown after a fragment, and the batch still
\* holds its file and can be analyzed again.
C20_Witness ==
    /\ last.op = "streamThrew"
    /\ last.n >= 1
    /\ files # <<>>
    /\ ~isAnalyzing
    /\ error = "HTTP 429"

====
